---- MODULE Spec2Model ----
(***************************************************************************)
(* A model of the poloniex-api client: the REST dispatcher (one mutex, one *)
(* nonce counter, the classification of the response body), the symbol     *)
(* registry built at construction, the subscription manager and the loop   *)
(* that reads the WebSocket stream and emits its events.                   *)
(***************************************************************************)
EXTENDS Integers, Sequences, FiniteSets, TLC

VARIABLES
    nonce,          \* Poloniex.nonce
    mutex,          \* Poloniex.mutex: the caller holding it, or Unlocked
    pc,             \* per caller: where it is inside public()/private()
    op,             \* per caller: the catalogue operation it is executing
    req,            \* per caller: the nonce placed in the request it built
    sentNonces,     \* the nonces of the private requests, in the order sent
    returned,       \* per caller: the REST call that last returned to it
    markets,        \* the Ticker map getMarkets() received at construction
    ByName,         \* Poloniex.ByName
    ByID,           \* Poloniex.ByID
    subscriptions,  \* Poloniex.subscriptions (the keys mapped to true)
    wsLast,         \* the most recent Subscribe/Unsubscribe call, as its caller saw it
    wsLoop,         \* where the goroutine running StartWS is
    message,        \* StartWS: what ReadJSON gave in this iteration of the loop
    routed,         \* StartWS: the handler this iteration called
    emitted         \* the calls of Emit made in this iteration, in order

restVars == <<nonce, mutex, pc, op, req, sentNonces, returned>>
streamVars == <<wsLoop, message, routed, emitted>>
wsVars == <<markets, ByName, ByID, subscriptions, wsLast,
            wsLoop, message, routed, emitted>>
vars == <<nonce, mutex, pc, op, req, sentNonces, returned,
          markets, ByName, ByID, subscriptions, wsLast,
          wsLoop, message, routed, emitted>>

(***************************************************************************)
(* Bounds of the model.                                                    *)
(***************************************************************************)
NumCallers == 2     \* concurrent goroutines calling the REST API
MaxNonce == 3       \* private calls started in one run
MaxBodyLen == 3     \* lexemes in a response body
MaxSubs == 2        \* entries the subscription set may grow to
MaxDeltas == 2      \* deltas in one order-book frame

Callers == 1..NumCallers
Unlocked == <<>>
HeldBy(c) == <<c>>
NoOp == "none"
Nil == "<nil>"

(***************************************************************************)
(* The REST catalogue: one operation of each shape the wrappers take.  The *)
(* remaining private wrappers (OpenOrders, Buy, Sell, Move, FeeInfo, ...)  *)
(* have the shape of Balances: err = p.private(cmd, params, &x); return.   *)
(***************************************************************************)
PrivateOps ==
    {"Balances", "AccountBalances", "Addresses", "PrivateTradeHistory",
     "CancelOrder", "Withdraw"}
PublicOps == {"Ticker", "LoanOrders"}
Ops == PrivateOps \cup PublicOps

\* Withdraw handing &w to the dispatcher, as the other wrappers do.
TargetByAddress(o) ==
    CASE o = "Balances" -> "map"
      [] o = "AccountBalances" -> "struct"
      [] o = "Addresses" -> "stringmap"
      [] o = "PrivateTradeHistory" -> "slice"
      [] o = "CancelOrder" -> "struct"
      [] o = "Withdraw" -> "struct"
      [] o = "Ticker" -> "map"
      [] o = "LoanOrders" -> "struct"

\* The Go type the wrapper hands to the dispatcher as retval:
\*   "map"       a pointer to a map of structs  (Balances, Ticker)
\*   "stringmap" a pointer to a map of strings  (Addresses)
\*   "struct"    a pointer to a struct          (accountBalancesTemp, Base, LoanOrders)
\*   "slice"     a pointer to a slice           (PrivateTradeHistory)
\*   "value"     a struct passed by value       (Withdraw)
Target(o) ==
    CASE o = "Balances" -> "map"
      [] o = "AccountBalances" -> "struct"
      [] o = "Addresses" -> "stringmap"
      [] o = "PrivateTradeHistory" -> "slice"
      [] o = "CancelOrder" -> "struct"
      [] o = "Withdraw" -> "value"
      [] o = "Ticker" -> "map"
      [] o = "LoanOrders" -> "struct"

\* What the wrapper returns as err, given the error of the dispatcher.
\* AccountBalances and Addresses call p.private(...) without assigning its
\* result, so their named result err stays nil.
WrapperErr(o, derr) ==
    IF o \in {"AccountBalances", "Addresses"} THEN Nil ELSE derr

(***************************************************************************)
(* Response bodies.  A body is a sequence of lexemes:                      *)
(*   "[" "]" "{" "}"   the JSON brackets                                   *)
(*   " "               white space                                         *)
(*   "E"               the member  "error":"Invalid API key."              *)
(*   "P"               the member  "error":"Fee is 0.25%"                  *)
(*   "d"               a data member whose value fits the call's target    *)
(* Commas are implied between members and between elements.                *)
(***************************************************************************)
Lexemes == {"[", "]", "{", "}", " ", "E", "P", "d"}
ErrorMembers == {"E", "P"}

\* The string of an error member, in the pieces fmt's format scanner sees:
\* literal text, "%" and the characters that follow a "%".
ErrorText(l) ==
    IF l = "E" THEN <<"Invalid API key.">> ELSE <<"Fee is 0.25", "%">>

RECURSIVE Concat(_)
Concat(pieces) ==
    IF pieces = <<>> THEN "" ELSE Head(pieces) \o Concat(Tail(pieces))

\* fmt.Errorf(format) with no operands: literal text is copied, "%%" gives
\* "%", a "%" that ends the format gives "%!(NOVERB)" and a "%" followed by
\* a verb gives "%!verb(MISSING)".
RECURSIVE Errorf(_)
Errorf(format) ==
    IF format = <<>> THEN ""
    ELSE IF Head(format) # "%" THEN Head(format) \o Errorf(Tail(format))
    ELSE IF Len(format) = 1 THEN "%!(NOVERB)"
    ELSE IF format[2] = "%" THEN "%" \o Errorf(Tail(Tail(format)))
    ELSE "%!" \o format[2] \o "(MISSING)" \o Errorf(Tail(Tail(format)))

RECURSIVE SeqsUpTo(_)
SeqsUpTo(n) ==
    IF n = 0 THEN {<<>>}
    ELSE LET shorter == SeqsUpTo(n - 1)
         IN  shorter \cup {Append(s, l) : s \in {t \in shorter : Len(t) = n - 1},
                                          l \in Lexemes}

AllBodies == SeqsUpTo(MaxBodyLen)

\* The bodies the server answers with while callers contend for the mutex.
SampleBodies ==
    {<<"[", "]">>, <<"{", "E", "}">>, <<"{", "d", "}">>, <<"{", "}">>, <<>>}

\* A comparison with the empty array in place of the prefix test.
HasArrayPrefixExact(s) == s = <<"[", "]">>
\* strings.HasPrefix(s, "[")
HasArrayPrefix(s) == Len(s) >= 1 /\ s[1] = "["

(***************************************************************************)
(* encoding/json, as far as the dispatcher uses it.                        *)
(***************************************************************************)
SyntaxErr == "json: syntax error"
TypeErr == "json: cannot unmarshal into Go value"
InvalidUnmarshalErr == "json: Unmarshal(non-pointer)"
TransportErr == "transport error"
ReadErr == "body read error"

Strip(s) == SelectSeq(s, LAMBDA l : l # " ")

\* Recursive descent over the lexemes: the index after the value that starts
\* at i, or 0 when no value starts there.
RECURSIVE ParseValue(_, _), ParseElems(_, _), ParseMembers(_, _)
ParseValue(t, i) ==
    IF i > Len(t) THEN 0
    ELSE IF t[i] = "[" THEN ParseElems(t, i + 1)
    ELSE IF t[i] = "{" THEN ParseMembers(t, i + 1)
    ELSE 0
ParseElems(t, i) ==
    IF i > Len(t) THEN 0
    ELSE IF t[i] = "]" THEN i + 1
    ELSE LET j == ParseValue(t, i) IN IF j = 0 THEN 0 ELSE ParseElems(t, j)
ParseMembers(t, i) ==
    IF i > Len(t) THEN 0
    ELSE IF t[i] = "}" THEN i + 1
    ELSE IF t[i] \in ErrorMembers \cup {"d"} THEN ParseMembers(t, i + 1)
    ELSE 0

ValidJSON(s) == LET t == Strip(s) IN ParseValue(t, 1) = Len(t) + 1

\* The error members of a top-level object, in order.
ErrorsOf(s) == SelectSeq(Strip(s), LAMBDA l : l \in ErrorMembers)

\* json.Unmarshal([]byte(s), &perr) with perr of type Error: the error it
\* returns and perr.Error afterwards (the last "error" member wins).
UnmarshalError(s) ==
    IF ~ValidJSON(s) THEN [err |-> SyntaxErr, Error |-> <<>>]
    ELSE IF Strip(s)[1] = "[" THEN [err |-> TypeErr, Error |-> <<>>]
    ELSE LET es == ErrorsOf(s)
         IN  [err |-> Nil,
              Error |-> IF es = <<>> THEN <<>> ELSE ErrorText(es[Len(es)])]

\* json.Unmarshal([]byte(s), retval): the error it returns and what became
\* of the target ("zero": untouched, "decoded", "partial": decoded up to a
\* type error).
Unmarshal(s, target) ==
    LET t == Strip(s) IN
    IF ~ValidJSON(s) THEN [err |-> SyntaxErr, target |-> "zero"]
    ELSE IF target = "value" THEN [err |-> InvalidUnmarshalErr, target |-> "zero"]
    ELSE IF t[1] = "["
      THEN IF target # "slice" THEN [err |-> TypeErr, target |-> "zero"]
           ELSE IF \E i \in 2..Len(t) : t[i] = "["
             THEN [err |-> TypeErr, target |-> "partial"]
             ELSE [err |-> Nil, target |-> "decoded"]
    ELSE IF target = "slice" THEN [err |-> TypeErr, target |-> "zero"]
    ELSE IF target = "map" /\ ErrorsOf(s) # <<>>
      THEN [err |-> TypeErr, target |-> "partial"]
    ELSE [err |-> Nil, target |-> "decoded"]

(***************************************************************************)
(* The answers of the HTTP layer to one request.                           *)
(***************************************************************************)
Responses(bodies) ==
    {[kind |-> "transport", body |-> <<>>], [kind |-> "read", body |-> <<>>]}
    \cup {[kind |-> "body", body |-> b] : b \in bodies}

\* Poloniex.private from the return of req.Do() on.
privateResult(resp, target) ==
    IF resp.kind = "transport" THEN [err |-> TransportErr, target |-> "zero"]
    ELSE IF resp.kind = "read" THEN [err |-> ReadErr, target |-> "zero"]
    ELSE IF HasArrayPrefix(resp.body) THEN [err |-> Nil, target |-> "zero"]
    ELSE LET perr == UnmarshalError(resp.body) IN
         IF perr.err = Nil /\ perr.Error # <<>>
           THEN [err |-> Errorf(perr.Error), target |-> "zero"]
           ELSE Unmarshal(resp.body, target)

\* Poloniex.public from the return of req.Do() on.
publicResult(resp, target) ==
    IF resp.kind = "transport" THEN [err |-> TransportErr, target |-> "zero"]
    ELSE IF resp.kind = "read" THEN [err |-> ReadErr, target |-> "zero"]
    ELSE Unmarshal(resp.body, target)

\* Poloniex.getNonce
\* getNonce stepping the counter by two.
getNonceTwice(n) == n + 2
\* Poloniex.getNonce: p.nonce++
getNonce(n) == n + 1

(***************************************************************************)
(* The REST actions.                                                       *)
(***************************************************************************)
NoReturn ==
    [op |-> NoOp, resp |-> [kind |-> "none", body |-> <<>>],
     derr |-> Nil, err |-> Nil, target |-> "zero"]

\* A Lock that does not wait for the mutex to be free.
privateLockNoWait(c) == mutex' = HeldBy(c)
publicLockNoWait(c) == mutex' = HeldBy(c)
\* p.mutex.Lock() in private and in public
privateLock(c) == mutex = Unlocked /\ mutex' = HeldBy(c)
publicLock(c) == mutex = Unlocked /\ mutex' = HeldBy(c)
\* A return that leaves the mutex as it is.
UnlockSkipped == UNCHANGED mutex
\* the deferred p.mutex.Unlock()
Unlock == mutex' = Unlocked

\* The private calls that have been started and not yet drawn their nonce.
PendingPrivate == {c \in Callers : pc[c] = "lock" /\ op[c] \in PrivateOps}

\* A goroutine calls an operation of the catalogue.
Call(c, o) ==
    /\ pc[c] = "idle"
    /\ o \in PrivateOps => nonce + Cardinality(PendingPrivate) < MaxNonce
    /\ pc' = [pc EXCEPT ![c] = "lock"]
    /\ op' = [op EXCEPT ![c] = o]
    /\ returned' = [returned EXCEPT ![c] = NoReturn]
    /\ UNCHANGED <<nonce, mutex, req, sentNonces>>
    /\ UNCHANGED wsVars

\* private: Lock, params.Set("nonce", p.getNonce()), build and sign the request.
PrivateBegin(c) ==
    /\ pc[c] = "lock"
    /\ op[c] \in PrivateOps
    /\ privateLock(c)
    /\ nonce' = getNonce(nonce)
    /\ req' = [req EXCEPT ![c] = <<getNonce(nonce)>>]
    /\ pc' = [pc EXCEPT ![c] = "built"]
    /\ UNCHANGED <<op, sentNonces, returned>>
    /\ UNCHANGED wsVars

\* private: req.Do() puts the request on the wire.
PrivateDo(c) ==
    /\ pc[c] = "built"
    /\ sentNonces' = sentNonces \o req[c]
    /\ pc' = [pc EXCEPT ![c] = "sent"]
    /\ UNCHANGED <<nonce, mutex, op, req, returned>>
    /\ UNCHANGED wsVars

\* private: the response arrives, is classified, the mutex is released and
\* the wrapper returns to its caller.
PrivateReturn(c, resp) ==
    /\ pc[c] = "sent"
    /\ op[c] \in PrivateOps
    /\ LET r == privateResult(resp, Target(op[c])) IN
       returned' = [returned EXCEPT ![c] =
                       [op |-> op[c], resp |-> resp, derr |-> r.err,
                        err |-> WrapperErr(op[c], r.err), target |-> r.target]]
    /\ Unlock
    /\ pc' = [pc EXCEPT ![c] = "idle"]
    /\ op' = [op EXCEPT ![c] = NoOp]
    /\ req' = [req EXCEPT ![c] = <<>>]
    /\ UNCHANGED <<nonce, sentNonces>>
    /\ UNCHANGED wsVars

\* public: Lock, build the request, req.Do() puts it on the wire.
PublicSend(c) ==
    /\ pc[c] = "lock"
    /\ op[c] \in PublicOps
    /\ publicLock(c)
    /\ pc' = [pc EXCEPT ![c] = "sent"]
    /\ UNCHANGED <<nonce, op, req, sentNonces, returned>>
    /\ UNCHANGED wsVars

\* public: the response arrives, is decoded, the mutex is released and the
\* wrapper returns to its caller.
PublicReturn(c, resp) ==
    /\ pc[c] = "sent"
    /\ op[c] \in PublicOps
    /\ LET r == publicResult(resp, Target(op[c])) IN
       returned' = [returned EXCEPT ![c] =
                       [op |-> op[c], resp |-> resp, derr |-> r.err,
                        err |-> r.err, target |-> r.target]]
    /\ Unlock
    /\ pc' = [pc EXCEPT ![c] = "idle"]
    /\ op' = [op EXCEPT ![c] = NoOp]
    /\ UNCHANGED <<nonce, req, sentNonces>>
    /\ UNCHANGED wsVars

\* The client after NewWithCredentials.  p.nonce starts at
\* time.Now().UnixNano(); the model counts it from that seed, which lies
\* some 7 * 10^18 increments below the largest int64.
InitRest ==
    /\ nonce = 0
    /\ mutex = Unlocked
    /\ pc = [c \in Callers |-> "idle"]
    /\ op = [c \in Callers |-> NoOp]
    /\ req = [c \in Callers |-> <<>>]
    /\ sentNonces = <<>>
    /\ returned = [c \in Callers |-> NoReturn]

(***************************************************************************)
(* The symbol registry.                                                    *)
(***************************************************************************)
\* The markets the ticker endpoint may return: a map from names to numeric
\* ids.  The names include one that reads like an id and one that is a
\* reserved name; the ids include a reserved one.
MarketNames == {"BTC_ETH", "148", "ticker"}
MarketIds == {121, 148, 1002}
MarketMaps == UNION {[D -> MarketIds] : D \in SUBSET MarketNames}

\* The orders in which range may visit the keys of a Go map.
Orders(m) ==
    {o \in [1..Cardinality(DOMAIN m) -> DOMAIN m] :
        \A i, j \in DOMAIN o : o[i] = o[j] => i = j}

EmptyMap == [x \in {} |-> x]
\* m[k] = v on a Go map
Put(m, k, v) == [x \in DOMAIN m \cup {k} |-> IF x = k THEN v ELSE m[x]]

\* fmt.Sprintf("%d", v.ID)
FormatID(id) == ToString(id)

\* The loop of getMarkets over the ticker map, visiting the keys in order.
RECURSIVE rangeMarkets(_, _, _)
rangeMarkets(m, order, acc) ==
    IF order = <<>> THEN acc
    ELSE LET k == Head(order)
             id == FormatID(m[k])
         IN  rangeMarkets(m, Tail(order),
                          [ByName |-> Put(acc.ByName, k, id),
                           ByID |-> Put(acc.ByID, id, k)])

\* getMarkets with the heartbeat entry left out of ByName.
getMarketsNoHeartbeat(m, order) ==
    LET looped == rangeMarkets(m, order, [ByName |-> EmptyMap, ByID |-> EmptyMap])
    IN  [ByID |-> Put(Put(Put(Put(looped.ByID, "1001", "trollbox"),
                              "1002", "ticker"), "1003", "footer"),
                      "1010", "heartbeat"),
         ByName |-> Put(Put(Put(looped.ByName, "trollbox", "1001"),
                            "ticker", "1002"), "footer", "1003")]

\* Poloniex.getMarkets: the registry built from the ticker map m.
getMarkets(m, order) ==
    LET looped == rangeMarkets(m, order, [ByName |-> EmptyMap, ByID |-> EmptyMap])
    IN  [ByID |-> Put(Put(Put(Put(looped.ByID, "1001", "trollbox"),
                              "1002", "ticker"), "1003", "footer"),
                      "1010", "heartbeat"),
         ByName |-> Put(Put(Put(Put(looped.ByName, "trollbox", "1001"),
                                "ticker", "1002"), "footer", "1003"),
                        "heartbeat", "1010")]

(***************************************************************************)
(* The subscription manager.                                               *)
(***************************************************************************)
UnrecognisedErr == "unrecognised channelid in subscribe"

\* What callers pass to Subscribe and Unsubscribe.
Tokens ==
    MarketNames \cup {FormatID(i) : i \in MarketIds}
    \cup {"heartbeat", "1010", "nope"}

NoWSCall ==
    [op |-> NoOp, token |-> "", err |-> Nil, frames |-> <<>>,
     writeFailed |-> FALSE, before |-> {}]

\* The lookup with the two maps tried in the other order.
resolveIDFirst(chid) ==
    IF chid \in DOMAIN ByID THEN [ok |-> TRUE, chid |-> ByID[chid]]
    ELSE IF chid \in DOMAIN ByName THEN [ok |-> TRUE, chid |-> ByName[chid]]
    ELSE [ok |-> FALSE, chid |-> chid]

\* The if / else if / else that opens Subscribe and Unsubscribe: chid after
\* it, and whether the function goes on.
resolve(chid) ==
    IF chid \in DOMAIN ByName THEN [ok |-> TRUE, chid |-> ByName[chid]]
    ELSE IF chid \in DOMAIN ByID THEN [ok |-> TRUE, chid |-> ByID[chid]]
    ELSE [ok |-> FALSE, chid |-> chid]

\* The error p.ws.WriteJSON returns when the frame cannot be written.
WriteErr == "websocket: write failed"

\* Poloniex.sendWSMessage: the result of p.ws.WriteJSON is dropped.
sendWSMessage(writeOk) == Nil

\* Subscribe keeping what it resolved in the registry.
SubscribeRemembering(token, writeOk) ==
    LET r == resolve(token) IN
    /\ r.ok => Cardinality(subscriptions \cup {r.chid}) <= MaxSubs
    /\ IF ~r.ok
         THEN /\ wsLast' = [op |-> "Subscribe", token |-> token,
                            err |-> UnrecognisedErr, frames |-> <<>>,
                            writeFailed |-> FALSE, before |-> subscriptions]
              /\ UNCHANGED <<subscriptions, ByName>>
         ELSE /\ subscriptions' = subscriptions \cup {r.chid}
              /\ ByName' = Put(ByName, token, r.chid)
              /\ wsLast' = [op |-> "Subscribe", token |-> token,
                            err |-> sendWSMessage(writeOk),
                            frames |-> <<[command |-> "subscribe",
                                          channel |-> r.chid]>>,
                            writeFailed |-> ~writeOk, before |-> subscriptions]
    /\ UNCHANGED <<markets, ByID>>
    /\ UNCHANGED streamVars
    /\ UNCHANGED restVars

\* Poloniex.Subscribe
Subscribe(token, writeOk) ==
    LET r == resolve(token) IN
    /\ r.ok => Cardinality(subscriptions \cup {r.chid}) <= MaxSubs
    /\ IF ~r.ok
         THEN /\ wsLast' = [op |-> "Subscribe", token |-> token,
                            err |-> UnrecognisedErr, frames |-> <<>>,
                            writeFailed |-> FALSE, before |-> subscriptions]
              /\ UNCHANGED subscriptions
         ELSE /\ subscriptions' = subscriptions \cup {r.chid}
              /\ wsLast' = [op |-> "Subscribe", token |-> token,
                            err |-> sendWSMessage(writeOk),
                            frames |-> <<[command |-> "subscribe",
                                          channel |-> r.chid]>>,
                            writeFailed |-> ~writeOk, before |-> subscriptions]
    /\ UNCHANGED <<markets, ByName, ByID>>
    /\ UNCHANGED streamVars
    /\ UNCHANGED restVars

\* Poloniex.Unsubscribe
Unsubscribe(token, writeOk) ==
    LET r == resolve(token) IN
    /\ IF ~r.ok
         THEN /\ wsLast' = [op |-> "Unsubscribe", token |-> token,
                            err |-> UnrecognisedErr, frames |-> <<>>,
                            writeFailed |-> FALSE, before |-> subscriptions]
              /\ UNCHANGED subscriptions
         ELSE /\ subscriptions' = subscriptions \ {r.chid}
              /\ wsLast' = [op |-> "Unsubscribe", token |-> token,
                            err |-> sendWSMessage(writeOk),
                            frames |-> <<[command |-> "subscribe",
                                          channel |-> r.chid]>>,
                            writeFailed |-> ~writeOk, before |-> subscriptions]
    /\ UNCHANGED <<markets, ByName, ByID>>
    /\ UNCHANGED streamVars
    /\ UNCHANGED restVars

(***************************************************************************)
(* The stream loop: the values ReadJSON decodes into []interface{}.        *)
(* A float64 is written in tenths (5 is 0.5, 1480 is 148); a string is the *)
(* sequence of its characters.                                             *)
(***************************************************************************)
Num(n) == [t |-> "float64", n |-> n, s |-> <<>>, a |-> <<>>]
Whole(i) == Num(10 * i)
Str(s) == [t |-> "string", n |-> 0, s |-> s, a |-> <<>>]
Null == [t |-> "nil", n |-> 0, s |-> <<>>, a |-> <<>>]
Arr(a) == [t |-> "array", n |-> 0, s |-> <<>>, a |-> a]

\* math.MaxFloat64, what toFloat returns for a value it cannot convert
MaxFloat64 == 2147483647

Digits == {"0", "1", "2", "3", "4", "5", "6", "7", "8", "9"}
DigitValue(c) == CHOOSE i \in 0..9 : ToString(i) = c

RECURSIVE WholeValue(_)
WholeValue(ds) ==
    IF ds = <<>> THEN 0
    ELSE 10 * WholeValue(SubSeq(ds, 1, Len(ds) - 1)) + DigitValue(ds[Len(ds)])

\* strconv.ParseFloat(s, 64) on decimal numerals: digits with at most one
\* point, anything else being a syntax error.  The value is kept to the
\* tenth, which the numerals of the model do not exceed.
ParseFloat(s) ==
    LET dots == {i \in 1..Len(s) : s[i] = "."}
        dot == IF dots = {} THEN Len(s) + 1 ELSE CHOOSE i \in dots : TRUE
        ip == SubSeq(s, 1, dot - 1)
        fp == SubSeq(s, dot + 1, Len(s))
        ok == /\ \A i \in 1..Len(s) : s[i] \in Digits \cup {"."}
              /\ Cardinality(dots) <= 1
              /\ Len(ip) + Len(fp) >= 1
    IN  [ok |-> ok,
         value |-> IF ok THEN 10 * WholeValue(ip)
                              + (IF fp = <<>> THEN 0 ELSE DigitValue(fp[1]))
                   ELSE 0]

\* toFloat
toFloat(i) ==
    IF i.t = "string"
      THEN IF ParseFloat(i.s).ok THEN ParseFloat(i.s).value ELSE MaxFloat64
    ELSE IF i.t = "float64" THEN i.n
    ELSE MaxFloat64

\* int64(f) for a float64 that fits: the fraction is discarded.
Trunc(f) == IF f >= 0 THEN f \div 10 ELSE -((-f) \div 10)

\* int64(math.MaxFloat64) does not fit; Go leaves the result to the
\* implementation, which gives one of the two ends of the int64 range.
Int64OutOfRange == {"-9223372036854775808", "9223372036854775807"}

\* fmt.Sprintf("%d", int64(f)): the int64 a float64 converts to, in decimal.
\* sat is what the implementation gives when f does not fit.
Int64Text(f, sat) == IF f = MaxFloat64 THEN sat ELSE ToString(Trunc(f))

\* a * b on float64, in tenths
Mul(a, b) ==
    IF a = 0 \/ b = 0 THEN 0
    ELSE IF a = MaxFloat64 \/ b = MaxFloat64 THEN MaxFloat64
    ELSE (a * b) \div 10

(***************************************************************************)
(* The stream loop: parsing a frame.                                       *)
(***************************************************************************)
InvalidOrderbookErr == "cannot parse to orderbook - invalid marketID"
CannotParseTickerErr == "cannot parse to ticker"
InvalidTickerErr == "cannot parse to ticker - invalid marketID"

\* WSOrderbook{}
ZeroOrderbook ==
    [Pair |-> "", Event |-> "", TradeID |-> "0", Type |-> "",
     Rate |-> 0, Amount |-> 0, Total |-> 0, TS |-> "zero"]

\* Whether the body of the loop of parseOrderbook panics on the delta _v: a
\* failed type assertion or an index out of range.
DeltaPanics(_v) ==
    \/ _v.t # "array"
    \/ Len(_v.a) = 0
    \/ _v.a[1].t # "string"
    \/ _v.a[1].s = <<"o">> /\ Len(_v.a) < 4
    \/ _v.a[1].s = <<"t">> /\ Len(_v.a) < 6

\* The "o" case with the flag and the amount read from each other's field.
orderDeltaSwapped(trade, v) ==
    [trade EXCEPT
        !.Event = IF toFloat(v[2]) = 0 THEN "remove" ELSE "modify",
        !.Type = IF toFloat(v[4]) = 10 THEN "bid" ELSE "ask",
        !.Rate = toFloat(v[3]),
        !.Amount = toFloat(v[4]),
        !.TS = "now"]

\* The "o" case of parseOrderbook.  v[1] is the tag, Go's v[0].
orderDelta(trade, v) ==
    [trade EXCEPT
        !.Event = IF toFloat(v[4]) = 0 THEN "remove" ELSE "modify",
        !.Type = IF toFloat(v[2]) = 10 THEN "bid" ELSE "ask",
        !.Rate = toFloat(v[3]),
        !.Amount = toFloat(v[4]),
        !.TS = "now"]

\* The "t" case of parseOrderbook.
tradeDelta(trade, raw, v, sat) ==
    [trade EXCEPT
        !.Event = "trade",
        !.TradeID = Int64Text(toFloat(raw[2]), sat),
        !.Type = IF toFloat(v[3]) = 10 THEN "buy" ELSE "sell",
        !.Rate = toFloat(v[4]),
        !.Amount = toFloat(v[5]),
        !.Total = Mul(toFloat(v[4]), toFloat(v[5])),
        !.TS = Int64Text(toFloat(v[6]), sat)]

\* One pass of the loop of parseOrderbook: the trade appended for the delta.
parseDelta(pair, raw, _v, sat) ==
    LET v == _v.a
        trade == [ZeroOrderbook EXCEPT !.Pair = pair]
    IN  IF v[1].s = <<"o">> THEN orderDelta(trade, v)
        ELSE IF v[1].s = <<"t">> THEN tradeDelta(trade, raw, v, sat)
        ELSE trade

\* Poloniex.parseOrderbook
parseOrderbook(raw, sat) ==
    LET marketID == Int64Text(toFloat(raw[1]), sat) IN
    IF marketID \notin DOMAIN ByID
      THEN [panic |-> FALSE, err |-> InvalidOrderbookErr, trades |-> <<>>]
    ELSE IF Len(raw) < 3 \/ raw[3].t # "array"
      THEN [panic |-> TRUE, err |-> Nil, trades |-> <<>>]
    ELSE IF \E i \in 1..Len(raw[3].a) : DeltaPanics(raw[3].a[i])
      THEN [panic |-> TRUE, err |-> Nil, trades |-> <<>>]
    ELSE [panic |-> FALSE, err |-> Nil,
          trades |-> [i \in 1..Len(raw[3].a) |->
                         parseDelta(ByID[marketID], raw, raw[3].a[i], sat)]]

\* Poloniex.parseTicker
parseTicker(raw, sat) ==
    IF Len(raw) <= 2
      THEN [panic |-> FALSE, err |-> CannotParseTickerErr, ticker |-> <<>>]
    ELSE IF raw[3].t # "array" \/ Len(raw[3].a) = 0
      THEN [panic |-> TRUE, err |-> Nil, ticker |-> <<>>]
    ELSE LET rawInner == raw[3].a
             marketID == Int64Text(toFloat(rawInner[1]), sat)
         IN  IF marketID \notin DOMAIN ByID
               THEN [panic |-> FALSE, err |-> InvalidTickerErr, ticker |-> <<>>]
             ELSE IF Len(rawInner) < 10
               THEN [panic |-> TRUE, err |-> Nil, ticker |-> <<>>]
             ELSE [panic |-> FALSE, err |-> Nil,
                   ticker |-> <<[Pair |-> ByID[marketID],
                                 PairID |-> marketID,
                                 Last |-> toFloat(rawInner[2]),
                                 Ask |-> toFloat(rawInner[3]),
                                 Bid |-> toFloat(rawInner[4]),
                                 PercentChange |-> toFloat(rawInner[5]),
                                 BaseVolume |-> toFloat(rawInner[6]),
                                 QuoteVolume |-> toFloat(rawInner[7]),
                                 IsFrozen |-> toFloat(rawInner[8]) # 0,
                                 DailyHigh |-> toFloat(rawInner[9]),
                                 DailyLow |-> toFloat(rawInner[10])]>>]

\* Poloniex.Emit: one more call of the emitter, after those in log.
Emit(log, event, payload) ==
    Append(log, [event |-> event, payload |-> payload])

\* The loop of handleOrderBook over the parsed trades.
RECURSIVE emitTrades(_, _)
emitTrades(log, orderbook) ==
    IF orderbook = <<>> THEN log
    ELSE LET v == Head(orderbook) IN
         emitTrades(Emit(Emit(Emit(log, v.Event, v), v.Pair, v),
                         v.Pair \o "-" \o v.Event, v),
                    Tail(orderbook))

\* handleOrderBook ranging over the trades from the last to the first.
handleOrderBookReversed(msg, sat) ==
    LET r == parseOrderbook(msg, sat) IN
    [panic |-> r.panic, err |-> r.err,
     emitted |-> IF r.panic \/ r.err # Nil THEN <<>>
                 ELSE emitTrades(<<>>, [i \in 1..Len(r.trades) |->
                                          r.trades[Len(r.trades) + 1 - i]])]

\* Poloniex.handleOrderBook
handleOrderBook(msg, sat) ==
    LET r == parseOrderbook(msg, sat) IN
    [panic |-> r.panic, err |-> r.err,
     emitted |-> IF r.panic \/ r.err # Nil THEN <<>>
                 ELSE emitTrades(<<>>, r.trades)]

\* handleTicker going on to emit after a parse error.
handleTickerAfterError(msg, sat) ==
    LET r == parseTicker(msg, sat) IN
    [panic |-> r.panic, err |-> r.err,
     emitted |-> IF r.panic THEN <<>>
                 ELSE IF r.err # Nil THEN Emit(<<>>, "ticker", [Pair |-> ""])
                 ELSE Emit(<<>>, "ticker", r.ticker[1])]

\* Poloniex.handleTicker
handleTicker(msg, sat) ==
    LET r == parseTicker(msg, sat) IN
    [panic |-> r.panic, err |-> r.err,
     emitted |-> IF r.panic \/ r.err # Nil THEN <<>>
                 ELSE Emit(<<>>, "ticker", r.ticker[1])]

(***************************************************************************)
(* The stream loop: the frames the server may send.                        *)
(***************************************************************************)
\* The deltas of an order-book frame: the three tags of the protocol with
\* numbers and numerals in their fields, a tag the client does not know, and
\* deltas that are not what the parser indexes into.
Deltas ==
    {Arr(<<Str(<<"i">>), Null>>),
     Arr(<<Str(<<"o">>), Whole(1), Str(<<"0", ".", "5">>), Str(<<"0", ".", "0">>)>>),
     Arr(<<Str(<<"o">>), Whole(0), Str(<<"0", ".", "5">>), Str(<<"0", ".", "5">>)>>),
     Arr(<<Str(<<"o">>), Str(<<"1">>), Str(<<"1", ".", "5">>), Whole(0)>>),
     Arr(<<Str(<<"o">>), Whole(1), Str(<<"0", ".", "5">>), Null>>),
     Arr(<<Str(<<"o">>), Whole(1), Str(<<"0", ".", "5">>)>>),
     Arr(<<Str(<<"t">>), Str(<<"7">>), Whole(1), Str(<<"0", ".", "5">>),
           Str(<<"1", ".", "5">>), Whole(15)>>),
     Arr(<<Str(<<"t">>), Str(<<"7">>), Whole(0), Str(<<"0", ".", "5">>),
           Str(<<"x">>), Null>>),
     Arr(<<Str(<<"t">>), Str(<<"7">>), Whole(1)>>),
     Arr(<<Str(<<"x">>)>>),
     Arr(<<Whole(1)>>),
     Arr(<<>>),
     Whole(1)}

RECURSIVE DeltaLists(_)
DeltaLists(n) ==
    IF n = 0 THEN {<<>>}
    ELSE LET shorter == DeltaLists(n - 1)
         IN  shorter \cup {Append(s, d) : s \in {t \in shorter : Len(t) = n - 1},
                                          d \in Deltas}

\* The nine fields that follow the pair id in the payload of a ticker frame.
TickerFields(frozen) ==
    <<Str(<<"0", ".", "5">>), Str(<<"0", ".", "6">>), Str(<<"0", ".", "4">>),
      Str(<<"0", ".", "1">>), Str(<<"1", "2">>), Str(<<"3">>), frozen,
      Str(<<"0", ".", "7">>), Str(<<"0", ".", "3">>)>>

\* The pair ids of ticker frames: known and unknown ones, as numbers and as
\* numerals, and values that are no number.
PairIds == {Whole(148), Whole(121), Whole(7), Whole(1002), Str(<<"1", "4", "8">>),
            Str(<<"x">>), Null}

TickerInners ==
    {<<id>> \o TickerFields(frozen) : id \in PairIds, frozen \in {Whole(0), Whole(1)}}
    \cup {<<id>> : id \in PairIds}
    \cup {<<Whole(148), Str(<<"0", ".", "5">>)>>}

Payloads ==
    {Arr(d) : d \in DeltaLists(MaxDeltas)} \cup {Arr(t) : t \in TickerInners}
    \cup {Str(<<"x">>)}

\* Element 0 of a frame: ids on both sides of the bounds of the order-book
\* range, the ids of markets, the ticker id, the heartbeat id, and ids with a
\* fraction.
ChannelNumbers ==
    {Whole(i) : i \in {0, 100, 101, 121, 148, 999, 1000, 1002, 1010}}
    \cup {Num(1005), Num(10025)}

\* The arrays ReadJSON may decode.
Frames ==
    {<<c, Whole(99), p>> : c \in ChannelNumbers, p \in Payloads}
    \cup {<<c, Whole(99)>> : c \in ChannelNumbers}
    \cup {<<c>> : c \in ChannelNumbers}
    \cup {<<>>}
    \cup {<<c, Whole(99), Arr(<<>>)>> : c \in {Str(<<"1", "4", "8">>), Null}}

NoMessage == [read |-> "none", elems |-> <<>>]

(***************************************************************************)
(* The stream loop: StartWS.                                               *)
(***************************************************************************)
\* toString of an int64
toString(i) == ToString(i)

\* The bounds of the order-book range compared with <= and >=.
IsOrderBookChannelInclusive(chid) == chid >= 100 /\ chid <= 1000
\* chid > 100.0 && chid < 1000.0
IsOrderBookChannel(chid) == chid > 100 /\ chid < 1000

\* StartWS from the return of ReadJSON to the end of the iteration: the
\* handler called, the events emitted, and whether the goroutine panicked.
dispatch(msg, sat) ==
    IF Len(msg) = 0 \/ msg[1].t # "float64"
      THEN [panic |-> TRUE, routed |-> "none", emitted |-> <<>>]
    ELSE LET chid == Trunc(msg[1].n)
             chids == toString(chid)
         IN  IF IsOrderBookChannel(chid)
               THEN LET r == handleOrderBook(msg, sat) IN
                    [panic |-> r.panic, routed |-> "orderbook", emitted |-> r.emitted]
             ELSE IF chids = ByName["ticker"]
               THEN LET r == handleTicker(msg, sat) IN
                    [panic |-> r.panic, routed |-> "ticker", emitted |-> r.emitted]
             ELSE [panic |-> FALSE, routed |-> "none", emitted |-> <<>>]

\* A goroutine calls StartWS.
StartWS ==
    /\ wsLoop = "notStarted"
    /\ wsLoop' = "select"
    /\ UNCHANGED <<message, routed, emitted>>
    /\ UNCHANGED <<markets, ByName, ByID, subscriptions, wsLast>>
    /\ UNCHANGED restVars

\* The top of the loop.  ctx is context.Background(), whose Done channel is
\* never ready: select takes the default case and the iteration starts with
\* an empty message.
StreamSelect ==
    /\ wsLoop = "select"
    /\ wsLoop' = "read"
    /\ message' = NoMessage
    /\ routed' = "none"
    /\ emitted' = <<>>
    /\ UNCHANGED <<markets, ByName, ByID, subscriptions, wsLast>>
    /\ UNCHANGED restVars

\* ReadJSON returns an error: it is logged and the loop continues.
StreamReadError ==
    /\ wsLoop = "read"
    /\ wsLoop' = "select"
    /\ message' = [read |-> "error", elems |-> <<>>]
    /\ UNCHANGED <<routed, emitted>>
    /\ UNCHANGED <<markets, ByName, ByID, subscriptions, wsLast>>
    /\ UNCHANGED restVars

\* ReadJSON returns a frame: it is routed, parsed and its events emitted.  A
\* panic is not recovered and ends the goroutine, and the process with it.
StreamDispatch(frame, sat) ==
    /\ wsLoop = "read"
    /\ message' = [read |-> "ok", elems |-> frame]
    /\ LET r == dispatch(frame, sat) IN
       /\ routed' = r.routed
       /\ emitted' = r.emitted
       /\ wsLoop' = IF r.panic THEN "panicked" ELSE "select"
    /\ UNCHANGED <<markets, ByName, ByID, subscriptions, wsLast>>
    /\ UNCHANGED restVars

\* The client after NewWithCredentials, for the ticker map m.
Constructed(m, order) ==
    /\ markets = m
    /\ ByName = getMarkets(m, order).ByName
    /\ ByID = getMarkets(m, order).ByID
    /\ subscriptions = {}
    /\ wsLast = NoWSCall
    /\ wsLoop = "notStarted"
    /\ message = NoMessage
    /\ routed = "none"
    /\ emitted = <<>>

\* The REST specifications run on the registry of two ordinary markets.
OrdinaryMarkets == [n \in {"BTC_ETH", "USDT_BTC"} |->
                        IF n = "BTC_ETH" THEN 148 ELSE 121]
InitWSFixed == Constructed(OrdinaryMarkets, <<"BTC_ETH", "USDT_BTC">>)

Init == InitRest /\ InitWSFixed

Next ==
    \E c \in Callers :
        \/ \E o \in Ops : Call(c, o)
        \/ PrivateBegin(c)
        \/ PrivateDo(c)
        \/ PublicSend(c)
        \/ \E resp \in Responses(SampleBodies) : PrivateReturn(c, resp)
        \/ \E resp \in Responses(SampleBodies) : PublicReturn(c, resp)

Spec == Init /\ [][Next]_vars

\* One caller, every body up to MaxBodyLen lexemes: the classification of
\* the response by the dispatcher.
NextDecode ==
    \/ \E o \in Ops : Call(1, o)
    \/ PrivateBegin(1)
    \/ PrivateDo(1)
    \/ PublicSend(1)
    \/ \E resp \in Responses(AllBodies) : PrivateReturn(1, resp)
    \/ \E resp \in Responses(AllBodies) : PublicReturn(1, resp)

SpecDecode == Init /\ [][NextDecode]_vars

\* The subscription manager over every registry the ticker endpoint can
\* give rise to.
InitWS ==
    /\ InitRest
    /\ \E m \in MarketMaps : \E order \in Orders(m) : Constructed(m, order)

NextWS ==
    \E token \in Tokens, writeOk \in BOOLEAN :
        \/ Subscribe(token, writeOk)
        \/ Unsubscribe(token, writeOk)

SpecWS == InitWS /\ [][NextWS]_vars

\* The stream loop on the registries of at most one market and on the
\* registry of the two ordinary markets.
StreamMarkets ==
    {m \in MarketMaps : Cardinality(DOMAIN m) <= 1} \cup {OrdinaryMarkets}

InitStream ==
    /\ InitRest
    /\ \E m \in StreamMarkets : \E order \in Orders(m) : Constructed(m, order)

NextStream ==
    \/ StartWS
    \/ StreamSelect
    \/ StreamReadError
    \/ /\ wsLoop = "read"
       /\ \E frame \in Frames, sat \in Int64OutOfRange : StreamDispatch(frame, sat)

SpecStream == InitStream /\ [][NextStream]_vars

\* The whole client: goroutines calling the REST API, Subscribe and
\* Unsubscribe while the stream loop runs, each over a few of its inputs.  A
\* panic of the stream loop ends the process.
ClientOps == {"Balances", "Ticker"}
ClientBodies == {<<"{", "}">>}
ClientTokens == {"148", "nope"}
ClientFrames ==
    {<<Whole(148), Whole(99),
       Arr(<<Arr(<<Str(<<"o">>), Whole(1), Str(<<"0", ".", "5">>),
                   Str(<<"0", ".", "0">>)>>)>>)>>,
     <<Whole(1010)>>,
     <<>>}

NextClient ==
    /\ wsLoop # "panicked"
    /\ \/ \E c \in Callers :
              \/ \E o \in ClientOps : Call(c, o)
              \/ PrivateBegin(c)
              \/ PrivateDo(c)
              \/ PublicSend(c)
              \/ \E resp \in Responses(ClientBodies) : PrivateReturn(c, resp)
              \/ \E resp \in Responses(ClientBodies) : PublicReturn(c, resp)
       \/ \E token \in ClientTokens, writeOk \in BOOLEAN :
              \/ Subscribe(token, writeOk)
              \/ Unsubscribe(token, writeOk)
       \/ StartWS
       \/ StreamSelect
       \/ StreamReadError
       \/ \E frame \in ClientFrames, sat \in Int64OutOfRange :
              StreamDispatch(frame, sat)

SpecClient == Init /\ [][NextClient]_vars

(***************************************************************************)
(* Properties of the REST path.                                            *)
(***************************************************************************)
InRequest(c) == pc[c] \in {"built", "sent"}

\* C1: the nonces of the private requests of one client are pairwise
\* distinct and strictly increasing in the order the requests are sent,
\* whatever the interleaving of the callers.
NoncesStrictlyIncreasing ==
    \A i, j \in 1..Len(sentNonces) : i < j => sentNonces[i] < sentNonces[j]

\* C1 witness: a private request has been sent, the next one is built and
\* another private caller waits for the mutex.
NoncesUnderContention ==
    /\ Len(sentNonces) >= 1
    /\ \E c, d \in Callers :
          /\ c # d
          /\ pc[c] = "built"
          /\ pc[d] = "lock" /\ op[d] \in PrivateOps

\* C2: at most one REST request, public or private, is between the building
\* of the request and the return of the call, and the caller it belongs to
\* holds the mutex all that time.
OneRequestInFlight ==
    \A c \in Callers :
        InRequest(c) =>
            /\ mutex = HeldBy(c)
            /\ \A d \in Callers \ {c} : ~InRequest(d)

\* C2 witness: a public request is on the wire while a private call waits
\* at Lock.
PublicInFlightPrivateWaiting ==
    \E c, d \in Callers :
        /\ pc[c] = "sent" /\ op[c] \in PublicOps
        /\ pc[d] = "lock" /\ op[d] \in PrivateOps

\* C3: a private call whose response body begins with "[" returns no error
\* and leaves the target untouched, whatever follows the "[".
ArraySentinelYieldsZero ==
    \A c \in Callers :
        LET r == returned[c] IN
        (/\ r.op \in PrivateOps
         /\ r.resp.kind = "body"
         /\ r.resp.body # <<>>
         /\ r.resp.body[1] = "[")
        => r.derr = Nil /\ r.err = Nil /\ r.target = "zero"

\* C3 witness: Balances has returned on a body that begins with "[" and goes
\* on with an unfinished object holding an error member.
ArraySentinelSeen ==
    /\ returned[1].op = "Balances"
    /\ returned[1].resp = [kind |-> "body", body |-> <<"[", "{", "E">>]

\* The body decodes as an object whose error field is not empty.
ReportsServerError(body) ==
    /\ ValidJSON(body)
    /\ Strip(body)[1] = "{"
    /\ ErrorsOf(body) # <<>>
\* The text of that error field, as the server wrote it.
ServerMessage(body) ==
    LET es == ErrorsOf(body) IN Concat(ErrorText(es[Len(es)]))

\* C4: when the body of a private call does not begin with "[" and decodes
\* as an object with a non-empty error field, the dispatcher fails with the
\* server's message and does not decode into the target.
PrivateServerErrorCarried ==
    \A c \in Callers :
        LET r == returned[c] IN
        (/\ r.op \in PrivateOps
         /\ r.resp.kind = "body"
         /\ ReportsServerError(r.resp.body))
        => r.derr = ServerMessage(r.resp.body) /\ r.target = "zero"

\* C5: every private operation returns the error of the dispatcher to its
\* caller.
PrivateErrorsPropagate ==
    \A c \in Callers :
        returned[c].op \in PrivateOps /\ returned[c].derr # Nil
        => returned[c].err = returned[c].derr

\* C6: a public call whose body decodes as an object with a non-empty error
\* field fails with the server's message.
PublicServerErrorCarried ==
    \A c \in Callers :
        LET r == returned[c] IN
        (/\ r.op \in PublicOps
         /\ r.resp.kind = "body"
         /\ ReportsServerError(r.resp.body))
        => r.err = ServerMessage(r.resp.body)

(***************************************************************************)
(* Properties of the registry and of the subscription manager.             *)
(***************************************************************************)
ReservedNames == {"trollbox", "ticker", "footer", "heartbeat"}
ReservedIDs == {"1001", "1002", "1003", "1010"}

\* byName[n] = i if and only if byId[i] = n, the reserved entries included.
RegistryInverse ==
    /\ \A n \in DOMAIN ByName :
          ByName[n] \in DOMAIN ByID /\ ByID[ByName[n]] = n
    /\ \A i \in DOMAIN ByID :
          ByID[i] \in DOMAIN ByName /\ ByName[ByID[i]] = i
    /\ ByName["trollbox"] = "1001" /\ ByName["ticker"] = "1002"
    /\ ByName["footer"] = "1003" /\ ByName["heartbeat"] = "1010"

\* C7, as claimed: after bootstrap the two maps are exact inverses for every
\* set of markets the ticker endpoint returns.
RegistryInverseForAnyMarkets == RegistryInverse

\* The markets have pairwise distinct ids, and none of their names or ids is
\* a reserved one.
DistinctUnreservedMarkets ==
    /\ \A n1, n2 \in DOMAIN markets : markets[n1] = markets[n2] => n1 = n2
    /\ \A n \in DOMAIN markets :
          n \notin ReservedNames /\ ToString(markets[n]) \notin ReservedIDs

\* C7, amended: after bootstrap the two maps are exact inverses, the four
\* reserved entries included, provided the markets returned have pairwise
\* distinct ids and none of their names or ids is a reserved one.
RegistryInverseForDistinctMarkets ==
    DistinctUnreservedMarkets => RegistryInverse

\* C7 witness: a client constructed from two markets with distinct,
\* unreserved names and ids.
TwoDistinctMarketsRegistered ==
    /\ Cardinality(DOMAIN markets) = 2
    /\ DistinctUnreservedMarkets
    /\ Cardinality(DOMAIN ByName) = 6

\* No string is both a name and an id of the registry.
NamesApartFromIDs == DOMAIN ByName \cap DOMAIN ByID = {}

\* The id of the channel a known token denotes.
ChannelID(token) == IF token \in DOMAIN ByName THEN ByName[token] ELSE token
ChannelName(token) == IF token \in DOMAIN ByID THEN ByID[token] ELSE token
Known(token) == token \in DOMAIN ByName \cup DOMAIN ByID

\* C8: for every known token, name or id, Subscribe inserts the id of the
\* channel into the subscription set and sends one frame with command
\* "subscribe" and that id as channel.  Stated for the registries whose maps
\* are inverses and whose names and ids are apart, where the channel of a
\* token is not in doubt.
SubscribeInsertsAndSendsID ==
    (/\ RegistryInverse /\ NamesApartFromIDs
     /\ wsLast.op = "Subscribe"
     /\ Known(wsLast.token))
    => /\ ChannelID(wsLast.token) \in subscriptions
       /\ wsLast.frames = <<[command |-> "subscribe",
                             channel |-> ChannelID(wsLast.token)]>>

\* C9: Subscribe and Unsubscribe with a token that is neither a name nor an
\* id return the "unrecognised channel" error, leave the subscription set as
\* it was and send no frame; a token that is a name is taken as a name, and
\* one that is only an id is accepted as well.
UnknownTokenRejected ==
    wsLast.op \in {"Subscribe", "Unsubscribe"} =>
        /\ ~Known(wsLast.token) =>
              /\ wsLast.err = UnrecognisedErr
              /\ subscriptions = wsLast.before
              /\ wsLast.frames = <<>>
        /\ Known(wsLast.token) =>
              /\ wsLast.err # UnrecognisedErr
              /\ Len(wsLast.frames) = 1
        /\ wsLast.token \in DOMAIN ByName =>
              wsLast.frames[1].channel = ByName[wsLast.token]

\* C9 witness: Unsubscribe of an unknown token has returned while the
\* subscription set held an entry.
UnknownTokenSeen ==
    /\ wsLast.op = "Unsubscribe"
    /\ wsLast.token = "nope"
    /\ wsLast.before # {}

\* C10: after Unsubscribe(t) has succeeded for a known token t, the
\* subscription set holds no entry for the channel of t, neither its id nor
\* its name.  Stated for the registries whose maps are inverses and whose
\* names and ids are apart.
UnsubscribeRemovesChannel ==
    (/\ RegistryInverse /\ NamesApartFromIDs
     /\ wsLast.op = "Unsubscribe"
     /\ Known(wsLast.token)
     /\ wsLast.err = Nil)
    => /\ ChannelID(wsLast.token) \notin subscriptions
       /\ ChannelName(wsLast.token) \notin subscriptions

\* C11 (as stated): when the WebSocket write of the control frame fails,
\* Subscribe and Unsubscribe return that transport error to their caller.
WriteFailureReturned ==
    (wsLast.op \in {"Subscribe", "Unsubscribe"} /\ wsLast.writeFailed)
        => wsLast.err = WriteErr

(***************************************************************************)
(* Properties of the stream loop.  They speak of the iteration of the loop *)
(* that last read a frame: message, the handler it called, what it emitted.*)
(***************************************************************************)
FrameRead == message.read = "ok"

\* Element 0 of the frame is a number without a fraction, and FrameId is it.
HasChannelId ==
    /\ FrameRead
    /\ Len(message.elems) >= 1
    /\ message.elems[1].t = "float64"
    /\ message.elems[1].n % 10 = 0
FrameId == message.elems[1].n \div 10

\* C12: a frame whose channel id lies strictly between 100 and 1000 is
\* handed to the order-book parser, a frame whose channel id is the ticker
\* id 1002 of the registry is handed to the ticker parser, and a frame with
\* any other channel id is handed to neither and emits nothing.
FramesRoutedByChannelId ==
    HasChannelId =>
        /\ (FrameId > 100 /\ FrameId < 1000) => routed = "orderbook"
        /\ (FrameId = 1002 /\ ByName["ticker"] = "1002") => routed = "ticker"
        /\ (FrameId <= 100 \/ FrameId >= 1000) /\ FrameId # 1002
              => routed = "none" /\ emitted = <<>>

\* A frame on channel 100 that carries order-book deltas has been read and
\* the loop is back at its select, having emitted nothing.
BoundaryFrameDropped ==
    /\ HasChannelId
    /\ FrameId = 100
    /\ Len(message.elems) = 3
    /\ message.elems[3] = Arr(<<Arr(<<Str(<<"o">>), Whole(1),
                                     Str(<<"0", ".", "5">>), Str(<<"0", ".", "0">>)>>)>>)
    /\ wsLoop = "select"
    /\ routed = "none"


\* A delta the loop of parseOrderbook can index: an array that opens with a
\* string tag and has the fields its tag is decoded from.
IsDelta(d) ==
    /\ d.t = "array"
    /\ Len(d.a) >= 1
    /\ d.a[1].t = "string"
    /\ d.a[1].s = <<"o">> => Len(d.a) >= 4
    /\ d.a[1].s = <<"t">> => Len(d.a) >= 6

\* The frame read is an order-book frame: its channel id is in (100,1000), the
\* registry knows it as a market id, and its payload is an array of deltas.
OrderBookFrame ==
    /\ HasChannelId
    /\ FrameId > 100 /\ FrameId < 1000
    /\ ToString(FrameId) \in DOMAIN ByID
    /\ Len(message.elems) >= 3
    /\ message.elems[3].t = "array"
    /\ \A i \in 1..Len(message.elems[3].a) : IsDelta(message.elems[3].a[i])
FrameDeltas == message.elems[3].a
FramePair == ByID[ToString(FrameId)]

\* The event a delta decodes to agrees with its tag, and its rate is the one
\* the delta carries.
PayloadOfDelta(payload, d) ==
    /\ d.a[1].s = <<"o">> =>
          payload.Event \in {"modify", "remove"} /\ payload.Rate = toFloat(d.a[3])
    /\ d.a[1].s = <<"t">> =>
          payload.Event = "trade" /\ payload.Rate = toFloat(d.a[4])

\* C13: an order-book frame with N deltas causes exactly 3*N emissions; the
\* k-th three of them belong to the k-th delta of the frame and are, in this
\* order, on the event name, on the pair name and on pair-event, all three
\* with the same payload.
ThreeEmissionsPerDelta ==
    OrderBookFrame =>
        /\ Len(emitted) = 3 * Len(FrameDeltas)
        /\ \A k \in 1..Len(FrameDeltas) :
              LET payload == emitted[3 * k - 2].payload IN
              /\ emitted[3 * k - 1].payload = payload
              /\ emitted[3 * k].payload = payload
              /\ payload.Pair = FramePair
              /\ PayloadOfDelta(payload, FrameDeltas[k])
              /\ emitted[3 * k - 2].event = payload.Event
              /\ emitted[3 * k - 1].event = FramePair
              /\ emitted[3 * k].event = FramePair \o "-" \o payload.Event

\* An order-book frame with a trade followed by an order has been emitted.
TwoDeltasEmitted ==
    /\ OrderBookFrame
    /\ Len(FrameDeltas) = 2
    /\ FrameDeltas[1].a[1].s = <<"t">>
    /\ FrameDeltas[2].a[1].s = <<"o">>
    /\ Len(emitted) = 6
    /\ emitted[1].event = "trade"
    /\ wsLoop = "select"


\* C14 (as stated): a delta with the tag "i" is ignored: an order-book frame
\* emits nothing for it, so that what it emits are the three events of each of
\* its other deltas and no listener, on the pair name or elsewhere, is called
\* for the "i" delta.
SnapshotMarkerIgnored ==
    OrderBookFrame =>
        Len(emitted) =
            3 * Cardinality({k \in 1..Len(FrameDeltas) :
                                FrameDeltas[k].a[1].s # <<"i">>})


\* The frame read is a ticker frame: it is on channel 1002 and its payload is
\* an array that has the pair id at index 0.
TickerFrame ==
    /\ HasChannelId
    /\ FrameId = 1002
    /\ Len(message.elems) >= 3
    /\ message.elems[3].t = "array"
    /\ Len(message.elems[3].a) >= 1
TickerInner == message.elems[3].a

\* The pair id of the ticker frame is a number, or the numeral of one, that
\* the registry has among its ids.
PairIdKnown ==
    /\ toFloat(TickerInner[1]) # MaxFloat64
    /\ ToString(Trunc(toFloat(TickerInner[1]))) \in DOMAIN ByID
PairName == ByID[ToString(Trunc(toFloat(TickerInner[1])))]

\* C15: a ticker frame whose pair id the registry does not know is dropped:
\* nothing is emitted and the loop goes on.  A ticker frame whose pair id the
\* registry knows, and which has the nine fields that follow the pair id, causes
\* exactly one emission, on "ticker", with the registry's name of the id as pair.
TickerResolvedByRegistry ==
    TickerFrame =>
        /\ ~PairIdKnown => emitted = <<>> /\ wsLoop = "select"
        /\ (PairIdKnown /\ Len(TickerInner) >= 10) =>
              /\ Len(emitted) = 1
              /\ emitted[1].event = "ticker"
              /\ emitted[1].payload.Pair = PairName

\* A ticker frame whose pair id is given as a numeral has been emitted on
\* "ticker" under the name of its market.
TickerEmittedForKnownPair ==
    /\ TickerFrame
    /\ PairIdKnown
    /\ TickerInner[1].t = "string"
    /\ Len(emitted) = 1
    /\ emitted[1].event = "ticker"
    /\ emitted[1].payload.Pair = "BTC_ETH"
    /\ wsLoop = "select"


\* The frame read is one the parsers decode in full.
ParseableFrame ==
    \/ OrderBookFrame
    \/ TickerFrame /\ PairIdKnown /\ Len(TickerInner) >= 10

\* C16 (as stated): a frame that cannot be parsed (an empty array, an element
\* 0 that is no number, a payload array that is missing or too short, an
\* unknown market id) is dropped without any emission and does not stop the
\* loop, which goes back to its select and reads the frames that follow.
FailingFrameDropped ==
    (FrameRead /\ ~ParseableFrame) => (emitted = <<>> /\ wsLoop = "select")


\* C18: the payload emitted for an "o" delta has type "bid" exactly when the
\* flag, field 1 of the delta, is 1 and "ask" otherwise, the rate of field 2,
\* the amount of field 3, and event "remove" exactly when that amount is 0
\* and "modify" otherwise.
OrderDeltaDecoded ==
    OrderBookFrame =>
        \A k \in 1..Len(FrameDeltas) :
            LET d == FrameDeltas[k].a
                payload == emitted[3 * k].payload
            IN  d[1].s = <<"o">> =>
                  /\ payload.Type = (IF toFloat(d[2]) = 10 THEN "bid" ELSE "ask")
                  /\ payload.Rate = toFloat(d[3])
                  /\ payload.Amount = toFloat(d[4])
                  /\ payload.Event = (IF toFloat(d[4]) = 0 THEN "remove" ELSE "modify")

\* The frame [148, 99, [["o", 1, "0.5", "0.0"]]] has been emitted as the
\* removal of a bid at rate 0.5 on BTC_ETH.
BidRemovalEmitted ==
    /\ OrderBookFrame
    /\ FrameId = 148
    /\ FrameDeltas = <<Arr(<<Str(<<"o">>), Whole(1), Str(<<"0", ".", "5">>),
                             Str(<<"0", ".", "0">>)>>)>>
    /\ Len(emitted) = 3
    /\ emitted[1].event = "remove"
    /\ emitted[2].event = "BTC_ETH"
    /\ emitted[3].event = "BTC_ETH-remove"
    /\ emitted[3].payload.Type = "bid"
    /\ emitted[3].payload.Rate = 5
    /\ emitted[3].payload.Amount = 0


(***************************************************************************)
(* Properties of the whole client.                                         *)
(***************************************************************************)
\* The private calls that have gone past the lock of the dispatcher: those
\* whose request was sent and those that hold a request ready to send.
PrivateCallsBegun ==
    Len(sentNonces) + Cardinality({c \in Callers : pc[c] = "built"})

\* Caller c goes, in this step, through the lock and the getNonce of private.
DrawsNonce(c) ==
    /\ op[c] \in PrivateOps
    /\ pc[c] = "lock"
    /\ pc'[c] = "built"
    /\ mutex' = HeldBy(c)

\* C19: the nonce counter has been stepped once for every private call that
\* began, whatever became of its request; a step changes the counter only by
\* adding one, for a private call that takes the REST mutex in that step, so
\* public calls, Subscribe, Unsubscribe and the stream loop leave it alone.
NonceSteppedOncePerPrivateCall ==
    /\ [](nonce = PrivateCallsBegun)
    /\ [][/\ nonce' # nonce => (nonce' = nonce + 1 /\ \E c \in Callers : DrawsNonce(c))
          /\ (\E c \in Callers : DrawsNonce(c)) => nonce' = nonce + 1]_vars

\* A private call has failed and a public call has returned, Subscribe has
\* sent its frame and the stream loop has emitted an order-book frame: the
\* counter stands at the number of private calls.
NonceAfterMixedCalls ==
    /\ \E c \in Callers : returned[c].op \in PrivateOps /\ returned[c].err # Nil
    /\ \E c \in Callers : returned[c].op \in PublicOps
    /\ wsLast.op = "Subscribe" /\ wsLast.err = Nil
    /\ FrameRead /\ emitted # <<>>
    /\ nonce = Len(sentNonces)
    /\ nonce >= 1

\* C20: no step of the client writes the registry: REST calls, Subscribe,
\* Unsubscribe and the steps of the stream loop leave ByName and ByID as the
\* constructor built them.
RegistryNeverWritten == [][ByName' = ByName /\ ByID' = ByID]_vars

\* Every kind of operation has run and the registry is the one getMarkets
\* built from the markets.
RegistryAfterMixedCalls ==
    /\ \E c \in Callers : returned[c].op \in PrivateOps
    /\ \E c \in Callers : returned[c].op \in PublicOps
    /\ wsLast.op = "Unsubscribe" /\ wsLast.err = Nil
    /\ "BTC_ETH" \in wsLast.before
    /\ FrameRead /\ emitted # <<>>
    /\ ByName = getMarkets(markets, <<"BTC_ETH", "USDT_BTC">>).ByName
    /\ ByID = getMarkets(markets, <<"BTC_ETH", "USDT_BTC">>).ByID


(***************************************************************************)
(* The REST path under fair scheduling.  Every request handed to the HTTP  *)
(* layer is put on the wire and answered (a request times out after 130    *)
(* seconds), and a goroutine blocked in Lock gets the mutex if it is free  *)
(* again and again: sync.Mutex hands the mutex to a waiter that has been   *)
(* starved.  Nothing obliges a goroutine to call the API.                  *)
(***************************************************************************)
FairRest ==
    \A c \in Callers :
        /\ SF_vars(PrivateBegin(c))
        /\ SF_vars(PublicSend(c))
        /\ WF_vars(PrivateDo(c))
        /\ WF_vars(\E resp \in Responses(SampleBodies) : PrivateReturn(c, resp))
        /\ WF_vars(\E resp \in Responses(SampleBodies) : PublicReturn(c, resp))

\* One private and one public operation, answered in each of the ways that
\* end a call: a transport error, a body that cannot be read, the array
\* sentinel, a server error, a body that does not decode, a success.
FairOps == {"Balances", "Ticker"}

NextFair ==
    \E c \in Callers :
        \/ \E o \in FairOps : Call(c, o)
        \/ PrivateBegin(c)
        \/ PrivateDo(c)
        \/ PublicSend(c)
        \/ \E resp \in Responses(SampleBodies) : PrivateReturn(c, resp)
        \/ \E resp \in Responses(SampleBodies) : PublicReturn(c, resp)

SpecFair == Init /\ [][NextFair]_vars /\ FairRest

\* C21: the mutex is held only by a caller that is inside its request, so
\* every return of public and private, whatever its outcome, has released
\* it; and every caller that waits for the mutex comes to hold it.
MutexReleasedAndAcquired ==
    /\ [](\A c \in Callers : mutex = HeldBy(c) => InRequest(c))
    /\ [](mutex = Unlocked => \A c \in Callers : ~InRequest(c))
    /\ \A c \in Callers : (pc[c] = "lock") ~> InRequest(c)

\* A call has returned with an error and the mutex it released is held by
\* another caller, whose private request is on the wire.
MutexPassedOnAfterError ==
    \E c, d \in Callers :
        /\ c # d
        /\ returned[d].op # NoOp /\ returned[d].err # Nil
        /\ pc[d] = "idle"
        /\ mutex = HeldBy(c)
        /\ pc[c] = "sent" /\ op[c] \in PrivateOps


\* C22: Withdraw never returns anything but the zero Withdraw, and it returns
\* an error for every body that reaches the decoding into its target: a body
\* that does not start with "[" and is not an object reporting a server
\* error, a body reporting success included.
WithdrawAlwaysFails ==
    \A c \in Callers :
        LET r == returned[c] IN
        r.op = "Withdraw" =>
            /\ r.target = "zero"
            /\ (/\ r.resp.kind = "body"
                /\ (r.resp.body = <<>> \/ r.resp.body[1] # "[")
                /\ ~ReportsServerError(r.resp.body)) => r.err # Nil

\* Withdraw has returned for a body that is an object with the data of a
\* successful withdrawal: its error is the one of a target that is no pointer.
WithdrawFailedOnSuccess ==
    \E c \in Callers :
        /\ returned[c].op = "Withdraw"
        /\ returned[c].resp = [kind |-> "body", body |-> <<"{", "d", "}">>]
        /\ returned[c].err = InvalidUnmarshalErr
        /\ returned[c].target = "zero"
====
